---- MODULE Spec2Model ----
(***************************************************************************)
(* Model of vis/seaborn.py: contour_plot and _contour_plot.                *)
(*                                                                         *)
(* One call of contour_plot is followed from its entry to its return or    *)
(* to the exception that ends it.  The drawing surface is modelled by the  *)
(* log of the operations performed on it (ops); Python values are tagged   *)
(* records; strings that the code inspects are sequences of characters.    *)
(***************************************************************************)
EXTENDS Integers, Sequences, FiniteSets, TLC

VARIABLES pc, args, ax, kwargs, n_levels, default_color, colors, color, cmap,
          label, ops, cset0, cset, ret, err

vars == <<pc, args, ax, kwargs, n_levels, default_color, colors, color, cmap,
          label, ops, cset0, cset, ret, err>>

\* Largest number of bands (collections) a drawn contour set holds.
MaxBands == 2

(***************************************************************************)
(* Python values.                                                          *)
(***************************************************************************)
PyVal(t, s, xs, n) == [t |-> t, s |-> s, xs |-> xs, n |-> n]

None == PyVal("None", <<>>, <<>>, 0)

\* a local name that has not been assigned
Unbound == PyVal("unbound", <<>>, <<>>, 0)

\* a keyword the caller did not pass
Absent == PyVal("absent", <<>>, <<>>, 0)

Str(s) == PyVal("str", s, <<>>, 0)

PyInt(n) == PyVal("int", <<>>, <<>>, n)

List(xs) == PyVal("list", <<>>, xs, 0)

IsString(v) == v.t = "str"

(***************************************************************************)
(* Keyword dictionaries: functions from the keys present to their values.  *)
(***************************************************************************)
EmptyKw == [k \in {} |-> None]

\* dict.pop(k, d): the value
PopValue(kw, k, d) == IF k \in DOMAIN kw THEN kw[k] ELSE d

\* dict.pop(k, d): the dictionary left
PopRest(kw, k) == [j \in (DOMAIN kw) \ {k} |-> kw[j]]

\* kw[k] = v
SetItem(kw, k, v) == [j \in (DOMAIN kw) \cup {k} |-> IF j = k THEN v ELSE kw[j]]

(***************************************************************************)
(* Strings as the code inspects them.                                      *)
(***************************************************************************)
Suffix_d == <<"_", "d">>

Suffix_r == <<"_", "r">>

\* str.endswith
EndsWith(s, suf) ==
    /\ Len(s) >= Len(suf)
    /\ SubSeq(s, Len(s) - Len(suf) + 1, Len(s)) = suf

\* str.replace(old, new): every non-overlapping occurrence, left to right
RECURSIVE Replace(_, _, _)
Replace(s, old, new) ==
    IF Len(s) < Len(old) THEN s
    ELSE IF SubSeq(s, 1, Len(old)) = old
         THEN new \o Replace(SubSeq(s, Len(old) + 1, Len(s)), old, new)
         ELSE <<Head(s)>> \o Replace(Tail(s), old, new)

(***************************************************************************)
(* Names bound in the module's namespace: the imports of lines 1-6 and the *)
(* two functions the module defines.  A call through any other global name *)
(* raises NameError.                                                       *)
(***************************************************************************)
ModuleGlobals == {"plt", "sns", "mpl", "np", "string_types",
                  "contour_plot", "_contour_plot"}

(***************************************************************************)
(* Collaborators: palette helpers and colormaps, as symbolic values.       *)
(***************************************************************************)
light_palette(c) == PyVal("light_palette", c.s, <<<<c.t>>>>, 0)

dark_palette(c) == PyVal("dark_palette", c.s, <<<<c.t>>>>, 0)

\* color_palette(name, n): n colours sampled from the named palette
color_palette(name, n) == [i \in 1..n |-> name \o <<"@">> \o <<ToString(i)>>]

blend_palette(pal) == PyVal("blend_palette", <<>>, pal, 0)

NearBlack == <<"#333333">>

\* names matplotlib's registry resolves
KnownCmaps == {<<"v">>}

get_cmap(name) == PyVal("get_cmap", name, <<>>, 0)

\* cmap(.95): the colormap evaluated at 0.95
At95(cm) == PyVal("rgba95", cm.s, <<<<cm.t>>>> \o cm.xs, 0)

\* the colour the surface's cycle gives the next line
NextAutoColor(a) == IF a = "gca" THEN Str(<<"C", "0">>) ELSE Str(<<"C", "1">>)

(***************************************************************************)
(* The inputs of a call.                                                   *)
(***************************************************************************)
XLens == {0, 2}

NLevelsVals == {PyInt(30)}

ColorsVals == {None, List(<<<<"r">>, <<"b">>>>)}

ColorVals == {None, Str(<<"r">>)}

CmapObject == PyVal("cmapobj", <<"M">>, <<>>, 0)

CmapVals == {Str(<<"P", "_", "d">>), Str(<<"v">>), Str(<<"z">>), CmapObject}

LabelVals == {Str(<<"L">>)}

LinewidthsVals == {PyInt(2)}

CbarAxVals == {None, Str(<<"cax">>)}

CbarKwsVals == {None, PyVal("dict", <<>>, <<<<"shrink">>>>, 0)}

AxVals == {"None", "axes1"}

Opt(S) == S \cup {Absent}

\* the **kwargs dictionary of a call: the keys the caller passed
MkKwargs(nl, cs, c, cm, lb, lw) ==
    LET all == [n_levels |-> nl, colors |-> cs, color |-> c, cmap |-> cm,
                label |-> lb, linewidths |-> lw]
    IN  [k \in {j \in DOMAIN all : all[j] # Absent} |-> all[k]]

NoArgs == [x |-> [len |-> 0, named |-> FALSE], y |-> [named |-> FALSE],
           shade |-> FALSE, legend |-> TRUE, shade_lowest |-> TRUE,
           cbar |-> FALSE, cbar_ax |-> None, cbar_kws |-> None,
           ax |-> "None", kwargs |-> EmptyKw]

\* one operation performed on the surface
Op(op, pos, kw, len) == [op |-> op, pos |-> pos, kw |-> kw, len |-> len]

Init ==
    /\ pc = "idle"
    /\ args = NoArgs
    /\ ax = "None"
    /\ kwargs = EmptyKw
    /\ n_levels = Unbound
    /\ default_color = Unbound
    /\ colors = Unbound
    /\ color = Unbound
    /\ cmap = Unbound
    /\ label = Unbound
    /\ ops = <<>>
    /\ cset0 = <<>>
    /\ cset = <<>>
    /\ ret = "None"
    /\ err = "none"

(***************************************************************************)
(* contour_plot, lines 109-127: resolve the surface, return at once on an  *)
(* empty x, otherwise enter _contour_plot.                                 *)
(***************************************************************************)
IsEmptyNever(x) == FALSE

\* len(x) == 0
IsEmpty(x) == x.len = 0

\* ax if given, else plt.gca()
TargetSurface(a) == IF a = "None" THEN "gca" ELSE a

contour_plot ==
    /\ pc = "idle"
    /\ \E xl \in XLens, xn \in BOOLEAN, yn \in BOOLEAN,
          sh \in BOOLEAN, lg \in BOOLEAN, sl \in BOOLEAN, cb \in BOOLEAN,
          ca \in CbarAxVals, ck \in CbarKwsVals, a \in AxVals,
          nl \in Opt(NLevelsVals), cs \in Opt(ColorsVals), c \in Opt(ColorVals),
          cm \in Opt(CmapVals), lb \in Opt(LabelVals), lw \in Opt(LinewidthsVals) :
        LET kw == MkKwargs(nl, cs, c, cm, lb, lw)
            x == [len |-> xl, named |-> xn]
        IN  /\ args' = [x |-> x, y |-> [named |-> yn],
                        shade |-> sh, legend |-> lg, shade_lowest |-> sl,
                        cbar |-> cb, cbar_ax |-> ca, cbar_kws |-> ck,
                        ax |-> a, kwargs |-> kw]
            /\ ax' = TargetSurface(a)
            /\ IF IsEmpty(x)
               THEN /\ pc' = "done"
                    /\ ret' = TargetSurface(a)
                    /\ UNCHANGED kwargs
               ELSE /\ pc' = "colors"
                    /\ kwargs' = kw
                    /\ UNCHANGED ret
    /\ UNCHANGED <<n_levels, default_color, colors, color, cmap, label, ops,
                   cset0, cset, err>>

(***************************************************************************)
(* _contour_plot, lines 136-160: the level count, the probe line and the   *)
(* colours.                                                                *)
(***************************************************************************)
Outcome(e, cm) == [err |-> e, cmap |-> cm]

\* lines 146-150: the colormap derived from the base colour
DeriveCmap(filled, c, cm) ==
    IF cm # None THEN Outcome("none", cm)
    ELSE IF filled
         THEN IF "light_palette" \in ModuleGlobals
              THEN Outcome("none", light_palette(c))
              ELSE Outcome("NameError", cm)
         ELSE IF "dark_palette" \in ModuleGlobals
              THEN Outcome("none", dark_palette(c))
              ELSE Outcome("NameError", cm)

\* lines 151-157: a colormap given by name
ResolveName(r) ==
    IF r.err # "none" \/ ~IsString(r.cmap) THEN r
    ELSE IF EndsWith(r.cmap.s, Suffix_d)
         THEN IF {"color_palette", "blend_palette"} \subseteq ModuleGlobals
              THEN Outcome("none",
                     blend_palette(<<NearBlack>> \o
                        color_palette(Replace(r.cmap.s, Suffix_d, Suffix_r), 2)))
              ELSE Outcome("NameError", r.cmap)
         ELSE IF r.cmap.s \in KnownCmaps
              THEN Outcome("none", get_cmap(r.cmap.s))
              ELSE Outcome("collaborator", r.cmap)

BaseColorNone(kw, dflt) == PopValue(kw, "color", None)

\* line 144: color = kwargs.pop("color", default_color)
BaseColor(kw, dflt) == PopValue(kw, "color", dflt)

ResolveColors ==
    /\ pc = "colors"
    /\ LET kw1 == PopRest(kwargs, "n_levels")
           dc == NextAutoColor(ax)
           cs == PopValue(kw1, "colors", None)
           kw2 == PopRest(kw1, "colors")
           c == BaseColor(kw2, dc)
           kw3 == PopRest(kw2, "color")
           cm == PopValue(kw3, "cmap", None)
           kw4 == PopRest(kw3, "cmap")
           r == ResolveName(DeriveCmap(args.shade, c, cm))
       IN  /\ n_levels' = PopValue(kwargs, "n_levels", PyInt(10))
           /\ ops' = ops \o <<Op("plot", None, EmptyKw, 0),
                              Op("remove", None, EmptyKw, 0)>>
           /\ default_color' = dc
           /\ colors' = cs
           /\ IF cs = None
              THEN /\ color' = c
                   /\ cmap' = r.cmap
                   /\ err' = r.err
                   /\ IF r.err = "none"
                      THEN /\ kwargs' = SetItem(kw4, "cmap", r.cmap)
                           /\ pc' = "draw"
                      ELSE /\ kwargs' = kw4
                           /\ pc' = "error"
              ELSE /\ kwargs' = SetItem(kw2, "colors", cs)
                   /\ pc' = "draw"
                   /\ UNCHANGED <<color, cmap, err>>
    /\ UNCHANGED <<args, ax, label, cset0, cset, ret>>

(***************************************************************************)
(* _contour_plot, lines 162-168: the label is taken out of the keywords,   *)
(* the primitive is called, the lowest band is made transparent.           *)
(***************************************************************************)
\* the opacities the primitive may give the bands of a set
BandAlphas == {0, 10}

\* line 164: contour_func
ContourFunc(filled) == IF filled THEN "contourf" ELSE "contour"

SuppressLowestAlways(filled, fill_lowest) == filled

\* line 166: filled and not fill_lowest
SuppressLowest(filled, fill_lowest) == filled /\ ~fill_lowest

\* line 167: cset.collections[0].set_alpha(0)
SetLowestAlpha(bands) == [bands EXCEPT ![1] = 0]

DrawContours ==
    /\ pc = "draw"
    /\ LET kw1 == PopRest(kwargs, "label")
       IN  /\ label' = PopValue(kwargs, "label", None)
           /\ ops' = Append(ops, Op(ContourFunc(args.shade), n_levels, kw1,
                                    args.x.len))
           /\ \/ \* the primitive rejects its arguments
                 /\ pc' = "error"
                 /\ err' = "collaborator"
                 /\ kwargs' = kw1
                 /\ UNCHANGED <<cset0, cset>>
              \/ \E n \in 1..MaxBands, a \in BandAlphas :
                   LET bands == [i \in 1..n |-> a]
                   IN  /\ cset0' = bands
                       /\ cset' = IF SuppressLowest(args.shade, args.shade_lowest)
                                  THEN SetLowestAlpha(bands)
                                  ELSE bands
                       /\ kwargs' = SetItem(kw1, "n_levels", n_levels)
                       /\ pc' = "decorate"
                       /\ UNCHANGED err
    /\ UNCHANGED <<args, ax, n_levels, default_color, colors, color, cmap, ret>>

(***************************************************************************)
(* _contour_plot, lines 170-187: colorbar, axis labels, legend proxy,      *)
(* return.                                                                 *)
(***************************************************************************)
\* line 171: {} if cbar_kws is None else cbar_kws
CbarKwargs(ck) == IF ck = None THEN EmptyKw ELSE [k \in {"shrink"} |-> PyInt(1)]

\* lines 175-178: the axis labels set
AxisLabels(x, y, axlabel) ==
    (IF x.named /\ axlabel
     THEN <<Op("set_xlabel", Str(<<"x">>), EmptyKw, 0)>> ELSE <<>>)
    \o
    (IF y.named /\ axlabel
     THEN <<Op("set_ylabel", Str(<<"y">>), EmptyKw, 0)>> ELSE <<>>)

\* line 181: cmap(.95) if color is None else color
LegendColor(c, cm) == IF c = None THEN At95(cm) ELSE c

\* lines 182-185: the zero-length proxy
LegendProxy(filled, c, lb) ==
    Op(IF filled THEN "fill_between" ELSE "plot", None,
       [k \in {"color", "label"} |-> IF k = "color" THEN c ELSE lb], 0)

Decorate ==
    /\ pc = "decorate"
    /\ \E cbar_ok \in (IF args.cbar THEN BOOLEAN ELSE {TRUE}) :
        LET ops1 == IF args.cbar
                    THEN Append(ops, Op("colorbar", args.cbar_ax,
                                        CbarKwargs(args.cbar_kws), 0))
                    ELSE ops
            ops2 == ops1 \o AxisLabels(args.x, args.y, args.legend)
        IN  IF ~cbar_ok
            THEN \* the colorbar primitive rejects its arguments
                 /\ ops' = ops1
                 /\ pc' = "error"
                 /\ err' = "collaborator"
                 /\ UNCHANGED ret
            ELSE IF label # None /\ color = Unbound
            THEN \* line 181 reads a local that was never assigned
                 /\ ops' = ops2
                 /\ pc' = "error"
                 /\ err' = "UnboundLocalError"
                 /\ UNCHANGED ret
            ELSE /\ ops' = IF label # None
                           THEN Append(ops2, LegendProxy(args.shade,
                                               LegendColor(color, cmap), label))
                           ELSE ops2
                 /\ pc' = "done"
                 /\ ret' = ax
                 /\ UNCHANGED err
    /\ UNCHANGED <<args, ax, kwargs, n_levels, default_color, colors, color,
                   cmap, label, cset0, cset>>

Next == contour_plot \/ ResolveColors \/ DrawContours \/ Decorate

Spec == Init /\ [][Next]_vars

TypeOK ==
    /\ pc \in {"idle", "colors", "draw", "decorate", "done", "error"}
    /\ err \in {"none", "NameError", "UnboundLocalError", "collaborator"}
    /\ (pc = "error") = (err # "none")

(***************************************************************************)
(* Vocabulary of the properties.                                           *)
(***************************************************************************)
\* the caller passed keyword k with a value other than None
Supplied(k) == k \in DOMAIN args.kwargs /\ args.kwargs[k] # None

\* the call has returned or raised
Terminal == pc \in {"done", "error"}

\* a call with non-empty x is under way or over
NonEmptyCall == pc # "idle" /\ args.x.len > 0

\* the calls of the contour/contourf primitive
ContourCalls == {i \in DOMAIN ops : ops[i].op \in {"contour", "contourf"}}

\* the legend proxies: the artists added with a label
Proxies == {i \in DOMAIN ops : "label" \in DOMAIN ops[i].kw}

\* the options _contour_plot names
Recognized == {"n_levels", "colors", "color", "cmap", "label"}

\* the base colour of a call: the explicit color, else the surface's next
\* automatic colour
ClaimedBase == IF Supplied("color") THEN args.kwargs["color"]
               ELSE NextAutoColor(ax)

(***************************************************************************)
(* C1: a call whose x has length zero returns the target surface (the      *)
(* given ax, or the current default surface when ax is None) and performs  *)
(* no operation on it, whatever the other options are.                     *)
(***************************************************************************)
C1_EmptyIsNoOp ==
    (pc # "idle" /\ args.x.len = 0) =>
        /\ pc = "done"
        /\ ret = (IF args.ax = "None" THEN "gca" ELSE args.ax)
        /\ ops = <<>>
        /\ cset = <<>>

C1_Witness ==
    /\ pc = "done"
    /\ args.x.len = 0
    /\ args.ax = "None"
    /\ args.cbar
    /\ args.x.named
    /\ Supplied("label")

(***************************************************************************)
(* C2 (as claimed): with colors supplied the primitive receives colors     *)
(* with the caller's value and no cmap key; the primitive always receives  *)
(* colors or cmap, never both.                                             *)
(***************************************************************************)
C2_ColorsExcludeCmap ==
    \A i \in ContourCalls :
        /\ {"colors", "cmap"} \cap DOMAIN ops[i].kw # {}
        /\ ~({"colors", "cmap"} \subseteq DOMAIN ops[i].kw)
        /\ Supplied("colors") =>
              /\ "colors" \in DOMAIN ops[i].kw
              /\ ops[i].kw["colors"] = args.kwargs["colors"]
              /\ "cmap" \notin DOMAIN ops[i].kw

(***************************************************************************)
(* C3 (as claimed): with neither colors nor cmap supplied the call         *)
(* reaches the primitive, which receives as cmap the light palette of the  *)
(* base colour when shade is true and the dark palette otherwise.          *)
(***************************************************************************)
C3_DerivedCmap ==
    (Terminal /\ NonEmptyCall /\ ~Supplied("colors") /\ ~Supplied("cmap")) =>
        \E i \in ContourCalls :
            /\ "cmap" \in DOMAIN ops[i].kw
            /\ ops[i].kw["cmap"] = (IF args.shade THEN light_palette(ClaimedBase)
                                    ELSE dark_palette(ClaimedBase))

(***************************************************************************)
(* C4: after a completed call with non-empty x, if shade is true and       *)
(* shade_lowest is false the first band has opacity 0 and every other band *)
(* keeps the opacity the primitive gave it; otherwise no band's opacity is *)
(* changed.                                                                *)
(***************************************************************************)
C4_LowestBand ==
    (pc = "done" /\ args.x.len > 0) =>
        /\ Len(cset) = Len(cset0)
        /\ Len(cset) >= 1
        /\ IF args.shade /\ ~args.shade_lowest
           THEN /\ cset[1] = 0
                /\ \A i \in 2..Len(cset) : cset[i] = cset0[i]
           ELSE cset = cset0

C4_Witness ==
    /\ pc = "done"
    /\ args.shade
    /\ ~args.shade_lowest
    /\ Len(cset) >= 2
    /\ cset0[1] = 10
    /\ cset[1] = 0
    /\ cset[2] = 10

(***************************************************************************)
(* C5 (as claimed): with label set, in every colour mode, the call         *)
(* completes having added exactly one zero-length proxy carrying the       *)
(* label, a fill_between proxy when shade is true and a plot proxy         *)
(* otherwise; with no label no proxy is added.  Calls a collaborator       *)
(* rejected are left aside.                                                *)
(***************************************************************************)
C5_OneProxy ==
    (Terminal /\ NonEmptyCall /\ err # "collaborator") =>
        IF Supplied("label")
        THEN /\ pc = "done"
             /\ Cardinality(Proxies) = 1
             /\ \A i \in Proxies :
                   /\ ops[i].len = 0
                   /\ ops[i].kw["label"] = args.kwargs["label"]
                   /\ ops[i].op = (IF args.shade THEN "fill_between" ELSE "plot")
        ELSE Proxies = {}

(***************************************************************************)
(* C6 (as claimed): with colors absent, a cmap name ending in "_d" does    *)
(* not fail and reaches the primitive as the blend of "#333333" and the 2  *)
(* colours of the palette named by the name with its trailing suffix       *)
(* replaced by "_r"; any other name is resolved directly; a non-string     *)
(* cmap is passed unchanged.                                               *)
(***************************************************************************)
C6_NamedCmap ==
    (Terminal /\ NonEmptyCall /\ ~Supplied("colors") /\ Supplied("cmap")) =>
        LET cm == args.kwargs["cmap"]
            given(v) == \E i \in ContourCalls :
                            /\ "cmap" \in DOMAIN ops[i].kw
                            /\ ops[i].kw["cmap"] = v
        IN  IF IsString(cm) /\ EndsWith(cm.s, Suffix_d)
            THEN given(blend_palette(<<NearBlack>> \o
                    color_palette(SubSeq(cm.s, 1, Len(cm.s) - 2) \o Suffix_r, 2)))
            ELSE IF IsString(cm)
                 THEN given(get_cmap(cm.s)) \/ err = "collaborator"
                 ELSE given(cm)

(***************************************************************************)
(* C7 (as claimed): with plain unnamed non-empty inputs and every option   *)
(* at its default the call completes having called contour (not contourf)  *)
(* exactly once with level specification 10, with no colorbar and neither  *)
(* axis label set.  Calls a collaborator rejected are left aside.          *)
(***************************************************************************)
C7_Defaults ==
    (/\ Terminal /\ NonEmptyCall /\ err # "collaborator"
     /\ ~args.x.named /\ ~args.y.named
     /\ ~args.shade /\ args.legend /\ args.shade_lowest /\ ~args.cbar
     /\ args.cbar_ax = None /\ args.cbar_kws = None /\ args.ax = "None"
     /\ args.kwargs = EmptyKw) =>
        /\ pc = "done"
        /\ Cardinality(ContourCalls) = 1
        /\ \A i \in ContourCalls : ops[i].op = "contour" /\ ops[i].pos = PyInt(10)
        /\ \A i \in DOMAIN ops :
              ops[i].op \notin {"colorbar", "set_xlabel", "set_ylabel"}

(***************************************************************************)
(* C8 (as claimed): no failure originates in the rendering code itself:    *)
(* every error comes from a collaborator, and the only return without      *)
(* drawing is the empty-x short circuit.                                   *)
(***************************************************************************)
C8_NoOwnFailure ==
    /\ err \in {"none", "collaborator"}
    /\ (pc = "done" /\ ContourCalls = {}) => args.x.len = 0

(***************************************************************************)
(* C9 (as claimed): the legend proxy has the explicit color if the caller  *)
(* gave one and otherwise the resolved colormap evaluated at 0.95.         *)
(***************************************************************************)
C9_LegendColorAsClaimed ==
    \A i \in Proxies :
        ops[i].kw["color"] = (IF Supplied("color") THEN args.kwargs["color"]
                              ELSE At95(cmap))

(***************************************************************************)
(* C9 (amended): every legend proxy added has the base colour, which is    *)
(* the value of the color keyword if the caller passed the key and the     *)
(* surface's next automatic colour otherwise; only when that base colour   *)
(* is None (the caller passed color=None) is it the resolved colormap      *)
(* evaluated at 0.95.                                                      *)
(***************************************************************************)
C9_LegendColor ==
    \A i \in Proxies :
        LET base == IF "color" \in DOMAIN args.kwargs THEN args.kwargs["color"]
                    ELSE NextAutoColor(ret)
        IN  /\ "cmap" \in DOMAIN kwargs
            /\ ops[i].kw["color"] = (IF base = None THEN At95(kwargs["cmap"])
                                     ELSE base)

C9_Witness ==
    /\ pc = "done"
    /\ Proxies # {}
    /\ "color" \notin DOMAIN args.kwargs
    /\ \A i \in Proxies : ops[i].kw["color"] = NextAutoColor(ret)

(***************************************************************************)
(* C10 (as claimed): the primitive receives exactly the caller's           *)
(* unrecognized keys, unchanged, plus the resolved colors or cmap; label,  *)
(* n_levels and color never reach it, in either colour mode.               *)
(***************************************************************************)
C10_Forwarding ==
    \A i \in ContourCalls :
        LET kw == ops[i].kw
            pass == (DOMAIN args.kwargs) \ Recognized
        IN  /\ DOMAIN kw \cap {"label", "n_levels", "color"} = {}
            /\ \A k \in pass : k \in DOMAIN kw /\ kw[k] = args.kwargs[k]
            /\ DOMAIN kw \subseteq pass \cup {"colors", "cmap"}

====
